---- MODULE Spec2Model ----
(***************************************************************************)
(* Model of the GCP-GPT repository: the ingestion orchestrator of app.py   *)
(* (page 1) and inventory.py around the ingestion ledger kept in S3, and   *)
(* the query flow of GCP_GPT_Assistant.py and app.py (page 2).             *)
(***************************************************************************)
EXTENDS Integers, Sequences, FiniteSets, TLC

\* ------------------------------------------------------------------------
\* Bounds of the model
\* ------------------------------------------------------------------------
MaxFetch == 2
MaxRuns == 2

\* Browser sessions: Streamlit runs the script of each session in a thread
\* of its own, so two script runs may interleave at their remote calls.
Sessions == {"A", "B"}

\* Index names the operator may type; "" is the empty text input.
IndexNames == {"idx1", "idx2"}
NoInput == ""

\* ------------------------------------------------------------------------
\* Object keys.  A key is prefix + file name; a file name is kept as its
\* parts so that endswith(".json") and the "ingestion_log" substring test
\* can be computed.
\* ------------------------------------------------------------------------
prefix == "copilot/"

FileName(kind, ts, ext) == [kind |-> kind, ts |-> ts, ext |-> ext]

\* f"gcp_inventory_{timestamp}.json"
filename(timestamp) == FileName("gcp_inventory_", timestamp, ".json")

\* datetime.now() at the fetch numbered n, in seconds past the hour: the
\* fetches of the model happen around ten minutes past, one second apart.
datetime_now(n) == 598 + n

\* strftime("%Y%m%d-%H%M%S"): its minutes and seconds, as decimal digits;
\* the date and the hour are those of every fetch of the model.
strftime(seconds) ==
    LET M == seconds \div 60
        S == seconds % 60
    IN <<M \div 10, M % 10, S \div 10, S % 10>>

\* timestamp = datetime.now().strftime(...), of the fetch numbered n
timestamp(n) == strftime(datetime_now(n))

\* a < b on str: the first position that differs decides, a proper prefix
\* comes first.
RECURSIVE StrBefore(_, _)
StrBefore(a, b) ==
    IF a = <<>> THEN b # <<>>
    ELSE IF b = <<>> THEN FALSE
    ELSE IF Head(a) # Head(b) THEN Head(a) < Head(b)
    ELSE StrBefore(Tail(a), Tail(b))

\* f"{prefix}{filename}"
s3_key(name) == [prefix |-> prefix, name |-> name]

log_key == s3_key(FileName("ingestion_log", 0, ".json"))

\* os.path.basename(key)
basename(key) == key.name

\* obj["Key"].endswith(".json")
EndsWithJson(key) == key.name.ext = ".json"

\* "ingestion_log" in obj["Key"]
ContainsIngestionLog(key) == key.name.kind = "ingestion_log"

SnapshotNames == {filename(t) : t \in 1..MaxFetch}

NoFile == s3_key(FileName("", 0, ""))

\* ------------------------------------------------------------------------
\* The ledger: a mapping file name -> index name
\* ------------------------------------------------------------------------
EmptyLog == [f \in {} |-> NoInput]

\* ingestion_log[latest_file_name] = index_name
Record(log, name, idx) ==
    [f \in (DOMAIN log) \cup {name} |-> IF f = name THEN idx ELSE log[f]]

\* Answers of the object store to a download of the ledger object.
\* "ok" and "NoSuchKey" depend on whether the object exists; "AccessDenied"
\* stands for every other botocore ClientError (403, 5xx, throttling);
\* "ConnectionError" for a failure that is no ClientError.
FetchAnswers(exists) ==
    (IF exists THEN {"ok"} ELSE {"NoSuchKey"}) \cup {"AccessDenied", "ConnectionError"}

IsClientError(answer) == answer \in {"NoSuchKey", "AccessDenied"}

\* load_ingestion_log(): the value returned, or the exception left to the
\* caller.
load_ingestion_log_no_except(answer, body) ==
    IF answer = "ok" THEN [raised |-> FALSE, log |-> body]
    ELSE [raised |-> TRUE, log |-> EmptyLog]

load_ingestion_log(answer, body) ==
    IF answer = "ok" THEN [raised |-> FALSE, log |-> body]
    ELSE IF IsClientError(answer) THEN [raised |-> FALSE, log |-> EmptyLog]
    ELSE [raised |-> TRUE, log |-> EmptyLog]

\* ------------------------------------------------------------------------
\* Listing and the choice of the latest snapshot
\* ------------------------------------------------------------------------
\* Lexicographic order of the keys, the order list_objects_v2 answers in:
\* "copilot/gcp_inventory_<t>.json" < "copilot/ingestion_log.json".
KeyBefore(a, b) ==
    IF a.name.kind # b.name.kind THEN a.name.kind = "gcp_inventory_"
    ELSE a.name.ts < b.name.ts

RECURSIVE InKeyOrder(_)
InKeyOrder(objs) ==
    IF objs = {} THEN <<>>
    ELSE LET first == CHOOSE o \in objs :
                          \A p \in objs \ {o} : KeyBefore(o.Key, p.Key)
         IN <<first>> \o InKeyOrder(objs \ {first})

\* sorted(..., key=lambda x: x["LastModified"], reverse=True): stable, the
\* objects of equal LastModified keep their order.
RECURSIVE InsertDesc(_, _)
InsertDesc(obj, sorted) ==
    IF sorted = <<>> THEN <<obj>>
    ELSE IF Head(sorted).LastModified >= obj.LastModified
         THEN <<Head(sorted)>> \o InsertDesc(obj, Tail(sorted))
         ELSE <<obj>> \o sorted

RECURSIVE SortedDesc(_)
SortedDesc(objs) ==
    IF objs = <<>> THEN <<>>
    ELSE LET n == Len(objs)
         IN InsertDesc(objs[n], SortedDesc(SubSeq(objs, 1, n - 1)))

IsSnapshotObject(obj) ==
    EndsWithJson(obj.Key) /\ ~ContainsIngestionLog(obj.Key)

json_files_ascending(contents) ==
    LET s == SortedDesc(SelectSeq(contents, IsSnapshotObject))
    IN [i \in 1..Len(s) |-> s[Len(s) + 1 - i]]

json_files(contents) == SortedDesc(SelectSeq(contents, IsSnapshotObject))

\* json_files[0]["Key"] when json_files is not empty
LatestKey(contents) ==
    LET files == json_files(contents)
    IN IF files = <<>> THEN NoFile ELSE files[1].Key

\* ------------------------------------------------------------------------
\* State
\* ------------------------------------------------------------------------
VARIABLES
    now,        \* clock of the object store: one tick per put
    fetched,    \* inventory snapshots produced so far
    Contents,   \* the objects under the prefix: [Key, LastModified]
    ledgerBody, \* the mapping held by the ledger object
    runs,       \* script runs started so far
    sess,       \* per session, the frame of its script run:
                \*   pc               position of the run
                \*   ingestion_log    the ledger as loaded by the run
                \*   logAnswer        the store's answer to the ledger fetch
                \*   latest_file_key  the key selected as latest
                \*   index_name       the operator's index name
                \*   outcome          how the run ended, what it reported
                \*   calls            remote calls the run has issued
    completed,  \* per snapshot: load_and_index calls that succeeded
    indexed,    \* <<file name, index name>> of the successful loads
    deleted     \* file names deleted from the store by ingestion

ingestVars == <<now, fetched, Contents, ledgerBody, runs, sess, completed,
                indexed, deleted>>

VARIABLES
    variant,    \* which script serves the page
    pinecone,   \* pc.list_indexes().names()
    q           \* the frame of the script run of the query page:
                \*   pc               position of the run
                \*   index_name       get_latest_index_from_s3_log()
                \*   retries          create_index_with_retry's retries
                \*   attempt          passes of its loop begun
                \*   raisedAttempts   passes that raised
                \*   createCalls      pc.create_index calls issued
                \*   createdNow       a create_index call succeeded
                \*   bootstrap        what the bootstrap returned
                \*   handle           pc.Index(index_name) was obtained
                \*   embedCalls, searchCalls, completionCalls
                \*   query_result, documents, errors
                \*   extracted        retrieve_documents has returned
                \*   returned         what query() returned
                \*   shown            messages displayed by the run

queryVars == <<variant, pinecone, q>>

VARIABLES
    objects,    \* a listing: objects.get("Contents", []), in some order
    picked      \* latest_file_key as chosen from it, once chosen

selectVars == <<objects, picked>>

vars == <<ingestVars, queryVars, selectVars>>

NoCalls == [download |-> "none", index |-> "none", save |-> "none", delete |-> "none"]
NoOutcome == [kind |-> "none", reported |-> NoInput]

\* The frame of a session that runs nothing.
Frame(pcv, out, key, cls) ==
    [pc |-> pcv, ingestion_log |-> EmptyLog, logAnswer |-> "none",
     latest_file_key |-> key, index_name |-> NoInput, outcome |-> out,
     calls |-> cls]

LedgerExists == \E o \in Contents : o.Key = log_key

KeyExists(key) == \E o \in Contents : o.Key = key

\* put-object: the object gets the store's current time
Put(contents, key, time) ==
    {o \in contents : o.Key # key} \cup {[Key |-> key, LastModified |-> time]}

IngestInit ==
    /\ now = 0
    /\ fetched = 0
    /\ Contents = {}
    /\ ledgerBody = EmptyLog
    /\ runs = 0
    /\ sess = [s \in Sessions |-> Frame("idle", NoOutcome, NoFile, NoCalls)]
    /\ completed = [f \in SnapshotNames |-> 0]
    /\ indexed = {}
    /\ deleted = {}

\* ------------------------------------------------------------------------
\* Step 1: fetch of the asset inventory and its upload
\* ------------------------------------------------------------------------
FetchInventory ==
    /\ fetched < MaxFetch
    /\ fetched' = fetched + 1
    /\ now' = now + 1
    /\ Contents' = Put(Contents, s3_key(filename(fetched + 1)), now + 1)
    /\ UNCHANGED <<ledgerBody, runs, sess, completed, indexed, deleted,
                   queryVars, selectVars>>

\* ------------------------------------------------------------------------
\* Step 2: one run of the script with the ingestion section
\* ------------------------------------------------------------------------
\* The run is over: what it displayed stays on the page, its variables go.
Finished(s, kind, reported, cls) ==
    sess' = [sess EXCEPT ![s] =
                Frame("done", [kind |-> kind, reported |-> reported],
                      sess[s].latest_file_key, cls)]

\* The operator's interaction that reruns the script: the text typed into
\* the index name input (possibly none) and the click on Start Ingestion.
StartRun(s, idx) ==
    /\ sess[s].pc \in {"idle", "done"}
    /\ runs < MaxRuns
    /\ runs' = runs + 1
    /\ sess' = [sess EXCEPT ![s] =
                   [Frame("load_log", NoOutcome, NoFile, NoCalls)
                       EXCEPT !.index_name = idx]]
    /\ UNCHANGED <<now, fetched, Contents, ledgerBody, completed, indexed,
                   deleted, queryVars, selectVars>>

\* ingestion_log = load_ingestion_log(), at the top level of the script: an
\* exception it lets through ends the run.
LoadLog(s) ==
    /\ sess[s].pc = "load_log"
    /\ \E answer \in FetchAnswers(LedgerExists) :
          LET r == load_ingestion_log(answer, ledgerBody)
          IN sess' = [sess EXCEPT ![s] =
                         IF r.raised
                         THEN [Frame("done",
                                     [kind |-> "raised", reported |-> NoInput],
                                     NoFile, NoCalls)
                                  EXCEPT !.logAnswer = answer]
                         ELSE [@ EXCEPT !.pc = "list",
                                        !.logAnswer = answer,
                                        !.ingestion_log = r.log]]
    /\ UNCHANGED <<now, fetched, Contents, ledgerBody, runs, completed,
                   indexed, deleted, queryVars, selectVars>>

\* if latest_file_name in ingestion_log: st.info(...)
\* else: index_name = st.text_input(...)
\*       if index_name and st.button(...): <ingest>
ledger_check_never_skips(latest_file_name, log, idx) ==
    IF idx = NoInput
    THEN [kind |-> "awaiting_input", reported |-> NoInput]
    ELSE [kind |-> "ingest", reported |-> NoInput]

ledger_check(latest_file_name, log, idx) ==
    IF latest_file_name \in DOMAIN log
    THEN [kind |-> "skipped", reported |-> log[latest_file_name]]
    ELSE IF idx = NoInput
    THEN [kind |-> "awaiting_input", reported |-> NoInput]
    ELSE [kind |-> "ingest", reported |-> NoInput]

\* s3.list_objects_v2, the choice of the latest file and the ledger check
ListAndCheck(s) ==
    /\ sess[s].pc = "list"
    /\ \E listed \in BOOLEAN :
          LET key == IF listed THEN LatestKey(InKeyOrder(Contents)) ELSE NoFile
              check == ledger_check(basename(key), sess[s].ingestion_log,
                                    sess[s].index_name)
          IN IF key = NoFile
             THEN Finished(s, "no_files", NoInput, sess[s].calls)
             ELSE IF check.kind = "ingest"
             THEN sess' = [sess EXCEPT ![s].latest_file_key = key,
                                       ![s].pc = "download"]
             ELSE sess' = [sess EXCEPT ![s] =
                              Frame("done", check, key, sess[s].calls)]
    /\ UNCHANGED <<now, fetched, Contents, ledgerBody, runs, completed,
                   indexed, deleted, queryVars, selectVars>>

\* try: download; load_and_index; record; save; delete
\* except Exception as e: st.error(...)
\* Where control goes after a call of the try block.
try_block_goes_on(call, ok) ==
    CASE call = "download" -> "index"
      [] call = "index" -> "save"
      [] call = "save" -> "delete"
      [] call = "delete" -> "done"

try_block(call, ok) ==
    IF ~ok THEN "except"
    ELSE CASE call = "download" -> "index"
           [] call = "index" -> "save"
           [] call = "save" -> "delete"
           [] call = "delete" -> "done"

Called(cls, call, ok) ==
    [cls EXCEPT ![call] = IF ok THEN "ok" ELSE "failed"]

\* s3.download_file(bucket_name, latest_file_key, latest_local)
Download(s) ==
    /\ sess[s].pc = "download"
    /\ \E answered \in BOOLEAN :
          LET ok == answered /\ KeyExists(sess[s].latest_file_key)
              cls == Called(sess[s].calls, "download", ok)
              next == try_block("download", ok)
          IN IF next = "except"
             THEN Finished(s, "download_failed", NoInput, cls)
             ELSE sess' = [sess EXCEPT ![s].pc = next, ![s].calls = cls]
    /\ UNCHANGED <<now, fetched, Contents, ledgerBody, runs, completed,
                   indexed, deleted, queryVars, selectVars>>

\* What a call of the loader leaves behind: when it reports success the
\* snapshot is loaded into the index.
load_and_index(name, idx, ok) ==
    /\ completed' = [completed EXCEPT ![name] = IF ok THEN @ + 1 ELSE @]
    /\ indexed' = IF ok THEN indexed \cup {<<name, idx>>} ELSE indexed

\* LangchainPineconeLoader(...).load_and_index()
LoadAndIndex(s) ==
    /\ sess[s].pc = "index"
    /\ \E ok \in BOOLEAN :
          LET cls == Called(sess[s].calls, "index", ok)
              next == try_block("index", ok)
          IN /\ load_and_index(basename(sess[s].latest_file_key),
                               sess[s].index_name, ok)
             /\ IF next = "except"
                THEN Finished(s, "index_failed", NoInput, cls)
                ELSE sess' = [sess EXCEPT ![s].pc = next, ![s].calls = cls]
    /\ UNCHANGED <<now, fetched, Contents, ledgerBody, runs, deleted,
                   queryVars, selectVars>>

\* save_ingestion_log(log_data): one upload_file of the whole mapping
save_ingestion_log_merges(log_data, ok) ==
    IF ok
    THEN /\ ledgerBody' = [f \in (DOMAIN ledgerBody) \cup (DOMAIN log_data) |->
                              IF f \in DOMAIN ledgerBody THEN ledgerBody[f]
                              ELSE log_data[f]]
         /\ now' = now + 1
         /\ Contents' = Put(Contents, log_key, now + 1)
    ELSE UNCHANGED <<ledgerBody, now, Contents>>

save_ingestion_log(log_data, ok) ==
    IF ok
    THEN /\ ledgerBody' = log_data
         /\ now' = now + 1
         /\ Contents' = Put(Contents, log_key, now + 1)
    ELSE UNCHANGED <<ledgerBody, now, Contents>>

\* ingestion_log[latest_file_name] = index_name; save_ingestion_log(...)
SaveLog(s) ==
    /\ sess[s].pc = "save"
    /\ \E ok \in BOOLEAN :
          LET cls == Called(sess[s].calls, "save", ok)
              next == try_block("save", ok)
              log == Record(sess[s].ingestion_log,
                            basename(sess[s].latest_file_key),
                            sess[s].index_name)
          IN /\ save_ingestion_log(log, ok)
             /\ IF next = "except"
                THEN Finished(s, "save_failed", NoInput, cls)
                ELSE sess' = [sess EXCEPT ![s].pc = next,
                                          ![s].calls = cls,
                                          ![s].ingestion_log = log]
    /\ UNCHANGED <<fetched, runs, completed, indexed, deleted, queryVars,
                   selectVars>>

\* s3.delete_object(Bucket=bucket_name, Key=latest_file_key), and the
\* messages of success that end the try block
DeleteSnapshot(s) ==
    /\ sess[s].pc = "delete"
    /\ \E ok \in BOOLEAN :
          LET cls == Called(sess[s].calls, "delete", ok)
              next == try_block("delete", ok)
              key == sess[s].latest_file_key
          IN /\ Contents' = IF ok THEN {o \in Contents : o.Key # key}
                            ELSE Contents
             /\ deleted' = IF ok /\ KeyExists(key)
                           THEN deleted \cup {basename(key)} ELSE deleted
             /\ IF next = "except"
                THEN Finished(s, "delete_failed", NoInput, cls)
                ELSE Finished(s, "ingested", sess[s].index_name, cls)
    /\ UNCHANGED <<now, fetched, ledgerBody, runs, completed, indexed,
                   queryVars, selectVars>>

\* The process is killed, or the session is closed, between two calls.
Crash(s) ==
    /\ sess[s].pc \notin {"idle", "done"}
    /\ Finished(s, "crashed", NoInput, sess[s].calls)
    /\ UNCHANGED <<now, fetched, Contents, ledgerBody, runs, completed,
                   indexed, deleted, queryVars, selectVars>>

SessionStep(s) ==
    \/ \E idx \in IndexNames \cup {NoInput} : StartRun(s, idx)
    \/ LoadLog(s)
    \/ ListAndCheck(s)
    \/ Download(s)
    \/ LoadAndIndex(s)
    \/ SaveLog(s)
    \/ DeleteSnapshot(s)
    \/ Crash(s)

IngestNext ==
    \/ FetchInventory
    \/ \E s \in Sessions : SessionStep(s)

\* ------------------------------------------------------------------------
\* The query flow: GCP_GPT_Assistant.py, and page 2 of app.py
\* ------------------------------------------------------------------------
MaxMatches == 4
MaxRetries == 3
retries_default == 3
max_docs_default == 3

Variants == {"assistant", "app"}

\* Metadata of a match: with a `content` field, or without one.
Metadatas == {[content |-> "doc1"], [content |-> "doc2"], [source |-> "s3"]}

\* The value of index.query(...): None, or a result with its matches.
NoneResult == [kind |-> "None", matches |-> <<>>]
QueryResult(metas) ==
    [kind |-> "result",
     matches |-> [i \in 1..Len(metas) |-> [id |-> i, metadata |-> metas[i]]]]

RECURSIVE SeqsUpTo(_, _)
SeqsUpTo(S, n) ==
    IF n = 0 THEN {<<>>}
    ELSE LET shorter == SeqsUpTo(S, n - 1)
         IN shorter \cup {Append(m, x) : m \in {y \in shorter : Len(y) = n - 1},
                                         x \in S}

\* sorted(ingestion_log.keys(), reverse=True)[0]: the keys are the strings
\* gcp_inventory_<timestamp>.json, which differ in their timestamp only.
latest_file(log) ==
    CHOOSE f \in DOMAIN log :
       \A g \in (DOMAIN log) \ {f} : StrBefore(timestamp(g.ts), timestamp(f.ts))

\* get_latest_index_from_s3_log(): the index name, or None (here NoInput)
\* after any exception, the empty ledger's ValueError included.
get_latest_index_from_s3_log(answer, body) ==
    IF answer # "ok" THEN NoInput
    ELSE IF body = EmptyLog THEN NoInput
    ELSE body[latest_file(body)]

\* One pass of the loop body of create_index_with_retry: whether
\* create_index is called, and whether the pass raises.
\*   listed: list_indexes() answered; created: create_index() succeeded.
attempt(present, listed, created) ==
    [create |-> listed /\ ~present,
     raised |-> ~listed \/ (~present /\ ~created)]

\* What follows a pass of the loop: return True, sleep and go round again,
\* or st.error(...) and return False.
after_attempt_reports_success(raised, n, retries) ==
    IF ~raised THEN "True"
    ELSE IF n < retries - 1 THEN "retry"
    ELSE "True"

after_attempt(raised, n, retries) ==
    IF ~raised THEN "True"
    ELSE IF n < retries - 1 THEN "retry"
    ELSE "False"

\* retrieve_documents of GCP_GPT_Assistant.py: the loop over
\* query_result['matches'][:max_docs], KeyError caught per match.
RECURSIVE collect(_, _)
collect(matches, acc) ==
    IF matches = <<>> THEN acc
    ELSE LET result == Head(matches)
         IN collect(Tail(matches),
                IF "content" \in DOMAIN result.metadata
                THEN [acc EXCEPT !.documents =
                         Append(@, result.metadata.content)]
                ELSE [acc EXCEPT !.errors = Append(@, result.id)])

NoDocuments == [documents |-> <<>>, errors |-> <<>>, raised |-> FALSE]

Slice(seq, n) == SubSeq(seq, 1, IF Len(seq) < n THEN Len(seq) ELSE n)

retrieve_documents(query_result, max_docs) ==
    IF query_result.kind = "None" THEN NoDocuments
    ELSE collect(Slice(query_result.matches, max_docs), NoDocuments)

\* retrieve_documents of app.py: a list comprehension, a KeyError leaves it.
retrieve_documents_app(results, max_docs) ==
    LET head == Slice(results.matches, max_docs)
    IN IF \E i \in 1..Len(head) : "content" \notin DOMAIN head[i].metadata
       THEN [NoDocuments EXCEPT !.raised = TRUE]
       ELSE [NoDocuments EXCEPT
                !.documents = [i \in 1..Len(head) |-> head[i].metadata.content]]

QFrame(pcv) ==
    [pc |-> pcv, index_name |-> NoInput, retries |-> retries_default,
     attempt |-> 0, raisedAttempts |-> 0, createCalls |-> 0,
     createdNow |-> FALSE, bootstrap |-> "none", handle |-> FALSE,
     embedCalls |-> 0, searchCalls |-> 0, completionCalls |-> 0,
     query_result |-> NoneResult, documents |-> <<>>, errors |-> <<>>,
     extracted |-> FALSE, returned |-> "", shown |-> {}]

\* The state ingestion leaves when the snapshots 1..n are fetched in turn
\* and those of the ledger are each ingested before the next fetch.
Ingested(n, log) ==
    LET names == DOMAIN log
        before(t) == Cardinality({f \in names : f.ts < t})
        snaps == {[Key |-> s3_key(filename(t)), LastModified |-> t + before(t)] :
                     t \in {u \in 1..n : filename(u) \notin names}}
        last == CHOOSE f \in names : \A g \in names : f.ts >= g.ts
        logs == IF names = {} THEN {}
                ELSE {[Key |-> log_key,
                       LastModified |-> last.ts + before(last.ts) + 1]}
    IN /\ now = n + Cardinality(names)
       /\ fetched = n
       /\ Contents = snaps \cup logs
       /\ ledgerBody = log
       /\ runs = Cardinality(names)
       /\ sess = [s \in Sessions |-> Frame("idle", NoOutcome, NoFile, NoCalls)]
       /\ completed = [f \in SnapshotNames |-> IF f \in names THEN 1 ELSE 0]
       /\ indexed = {<<f, log[f]>> : f \in names}
       /\ deleted = names

Ledgers(n) ==
    UNION {[names -> IndexNames] : names \in SUBSET {filename(t) : t \in 1..n}}

NotPicked == [done |-> FALSE, key |-> NoFile]

QueryInit ==
    /\ objects = <<>>
    /\ picked = NotPicked
    /\ \E n \in 0..MaxFetch : \E log \in Ledgers(n) : Ingested(n, log)
    /\ variant \in Variants
    /\ pinecone \in SUBSET {ledgerBody[f] : f \in DOMAIN ledgerBody}
    /\ q = QFrame("start")

\* index_name = get_latest_index_from_s3_log(); if not index_name: st.stop()
GetLatestIndex ==
    /\ q.pc = "start"
    /\ \E answer \in FetchAnswers(LedgerExists), retries \in 1..MaxRetries :
          LET name == get_latest_index_from_s3_log(answer, ledgerBody)
          IN q' = IF name = NoInput
                  THEN [q EXCEPT !.pc = "stopped",
                                 !.shown = @ \cup {"latest_index_error"}]
                  ELSE [q EXCEPT !.pc = "bootstrap", !.index_name = name,
                                 !.retries = IF variant = "assistant"
                                             THEN retries ELSE @]
    /\ UNCHANGED <<variant, pinecone, ingestVars, selectVars>>

\* create_index_with_retry(index_name, dimension, metric, spec): one pass of
\* its loop.  A create_index that raises may still have created the index.
create_index_with_retry ==
    /\ q.pc = "bootstrap"
    /\ variant = "assistant"
    /\ \E listed \in BOOLEAN, created \in BOOLEAN, lost \in BOOLEAN :
          LET a == attempt(q.index_name \in pinecone, listed, created)
              next == after_attempt(a.raised, q.attempt, q.retries)
              made == a.create /\ (created \/ lost)
          IN /\ (lost => a.create /\ ~created)
             /\ pinecone' = IF made THEN pinecone \cup {q.index_name}
                            ELSE pinecone
             /\ q' = [q EXCEPT
                        !.attempt = @ + 1,
                        !.raisedAttempts = IF a.raised THEN @ + 1 ELSE @,
                        !.createCalls = IF a.create THEN @ + 1 ELSE @,
                        !.createdNow = @ \/ (a.create /\ created),
                        !.bootstrap = IF next = "retry" THEN @ ELSE next,
                        !.shown = IF next = "False"
                                  THEN @ \cup {"create_index_error"} ELSE @,
                        !.pc = IF next = "retry" THEN @ ELSE "construct"]
    /\ UNCHANGED <<variant, ingestVars, selectVars>>

\* app.py: if index_name not in pc.list_indexes().names():
\*             pc.create_index(...)      with no try around it
create_index_inline ==
    /\ q.pc = "bootstrap"
    /\ variant = "app"
    /\ \E listed \in BOOLEAN, created \in BOOLEAN :
          LET a == attempt(q.index_name \in pinecone, listed, created)
          IN /\ pinecone' = IF a.create /\ created
                            THEN pinecone \cup {q.index_name} ELSE pinecone
             /\ q' = [q EXCEPT
                        !.attempt = @ + 1,
                        !.raisedAttempts = IF a.raised THEN @ + 1 ELSE @,
                        !.createCalls = IF a.create THEN @ + 1 ELSE @,
                        !.createdNow = a.create /\ created,
                        !.bootstrap = IF a.raised THEN "raised" ELSE "True",
                        !.returned = IF a.raised THEN "raised" ELSE @,
                        !.pc = IF a.raised THEN "ended" ELSE "form"]
    /\ UNCHANGED <<variant, ingestVars, selectVars>>

\* The bootstrap has returned and the script goes on: the locals of the
\* call are gone, what it returned stays.
Left(frame) ==
    [frame EXCEPT !.retries = retries_default, !.attempt = 0,
                  !.raisedAttempts = 0, !.createCalls = 0,
                  !.createdNow = FALSE]

\* PenTestVAPTAssistant(index_name): self.index = pc.Index(index_name).
\* GCP_GPT_Assistant.py builds it on every run, whatever the bootstrap
\* returned; app.py builds it once a question is submitted.
Construct ==
    /\ q.pc = "construct"
    /\ \E ok \in BOOLEAN :
          q' = IF ok \/ q.index_name \in pinecone
               THEN [Left(q) EXCEPT
                        !.handle = TRUE,
                        !.pc = IF variant = "app" THEN "embed" ELSE "form"]
               ELSE [Left(q) EXCEPT !.returned = "raised", !.pc = "ended"]
    /\ UNCHANGED <<variant, pinecone, ingestVars, selectVars>>

\* The form is submitted with a question.
Ask ==
    /\ q.pc = "form"
    /\ q' = [Left(q) EXCEPT
                !.pc = IF variant = "app" THEN "construct" ELSE "embed"]
    /\ UNCHANGED <<variant, pinecone, ingestVars, selectVars>>

\* generate_embedding(query)
generate_embedding ==
    /\ q.pc = "embed"
    /\ \E ok \in BOOLEAN :
          q' = IF ok
               THEN [q EXCEPT !.embedCalls = @ + 1, !.pc = "search"]
               ELSE IF variant = "assistant"
               THEN [q EXCEPT !.embedCalls = @ + 1,
                              !.shown = @ \cup {"embedding_error"},
                              !.returned = "None", !.pc = "ended"]
               ELSE [q EXCEPT !.embedCalls = @ + 1,
                              !.returned = "raised", !.pc = "ended"]
    /\ UNCHANGED <<variant, pinecone, ingestVars, selectVars>>

\* self.index.query(vector=..., top_k=top_k, include_metadata=True)
search_index ==
    /\ q.pc = "search"
    /\ \/ \E metas \in SeqsUpTo(Metadatas, MaxMatches) :
             /\ q.index_name \in pinecone
             /\ q' = [q EXCEPT !.searchCalls = @ + 1,
                               !.query_result = QueryResult(metas),
                               !.pc = "extract"]
       \/ q' = IF variant = "assistant"
               THEN [q EXCEPT !.searchCalls = @ + 1,
                              !.shown = @ \cup {"query_error"},
                              !.returned = "None", !.pc = "ended"]
               ELSE [q EXCEPT !.searchCalls = @ + 1,
                              !.returned = "raised", !.pc = "ended"]
    /\ UNCHANGED <<variant, pinecone, ingestVars, selectVars>>

\* query(): documents = self.retrieve_documents(query_result) and the test
\* of `documents` that follows it.
query_no_empty_test(r) ==
    IF r.raised
    THEN [q EXCEPT !.returned = "raised", !.pc = "ended"]
    ELSE [q EXCEPT !.documents = r.documents, !.errors = r.errors,
                   !.extracted = TRUE, !.pc = "summarize"]

query(r) ==
    IF r.raised
    THEN [q EXCEPT !.returned = "raised", !.pc = "ended"]
    ELSE IF r.documents = <<>>
    THEN [q EXCEPT !.documents = r.documents, !.errors = r.errors,
                   !.extracted = TRUE, !.pc = "ended",
                   !.shown = IF variant = "assistant"
                             THEN @ \cup {"no_documents_warning"} ELSE @,
                   !.returned = IF variant = "assistant" THEN "None"
                                ELSE "No relevant data found."]
    ELSE [q EXCEPT !.documents = r.documents, !.errors = r.errors,
                   !.extracted = TRUE, !.pc = "summarize"]

Extract ==
    /\ q.pc = "extract"
    /\ q' = query(IF variant = "assistant"
                  THEN retrieve_documents(q.query_result, max_docs_default)
                  ELSE retrieve_documents_app(q.query_result, max_docs_default))
    /\ UNCHANGED <<variant, pinecone, ingestVars, selectVars>>

\* generate_report(query, documents): the completion call
generate_report ==
    /\ q.pc = "summarize"
    /\ \E ok \in BOOLEAN :
          q' = IF ok
               THEN [q EXCEPT !.completionCalls = @ + 1,
                              !.returned = "report", !.pc = "ended"]
               ELSE IF variant = "assistant"
               THEN [q EXCEPT !.completionCalls = @ + 1,
                              !.shown = @ \cup {"report_error"},
                              !.returned = "None", !.pc = "ended"]
               ELSE [q EXCEPT !.completionCalls = @ + 1,
                              !.returned = "raised", !.pc = "ended"]
    /\ UNCHANGED <<variant, pinecone, ingestVars, selectVars>>

\* Any interaction reruns the script from its first line.
Rerun ==
    /\ q.pc \in {"stopped", "form", "ended"}
    /\ q' = QFrame("start")
    /\ UNCHANGED <<variant, pinecone, ingestVars, selectVars>>

QueryNext ==
    \/ GetLatestIndex
    \/ create_index_with_retry
    \/ create_index_inline
    \/ Construct
    \/ Ask
    \/ generate_embedding
    \/ search_index
    \/ Extract
    \/ generate_report
    \/ Rerun

\* ------------------------------------------------------------------------
\* The choice of the latest snapshot, over listings in every order
\* ------------------------------------------------------------------------
MaxListing == 3
MaxTime == 3

ListedKeys ==
    {s3_key(filename(t)) : t \in 1..MaxFetch}
        \cup {log_key, s3_key(FileName("notes", 0, ".txt"))}

ListedObjects == [Key : ListedKeys, LastModified : 1..MaxTime]

Listings ==
    {l \in SeqsUpTo(ListedObjects, MaxListing) :
        \A i, j \in 1..Len(l) : i # j => l[i].Key # l[j].Key}

Orderings(l) ==
    {[i \in 1..Len(l) |-> l[p[i]]] :
        p \in {f \in [1..Len(l) -> 1..Len(l)] :
                  \A i, j \in 1..Len(l) : i # j => f[i] # f[j]}}

SelectInit ==
    /\ objects \in Listings
    /\ picked = NotPicked
    /\ IngestInit
    /\ variant = "app"
    /\ pinecone = {}
    /\ q = QFrame("start")

\* latest_file_key = json_files[0]["Key"], NoFile when json_files is empty
SelectLatest ==
    /\ ~picked.done
    /\ picked' = [done |-> TRUE, key |-> LatestKey(objects)]
    /\ UNCHANGED <<objects, ingestVars, queryVars>>

\* The store answers the same listing in another order.
Relist ==
    /\ picked.done
    /\ objects' \in Orderings(objects)
    /\ UNCHANGED <<picked, ingestVars, queryVars>>

SelectNext == SelectLatest \/ Relist

\* ------------------------------------------------------------------------
\* Specifications
\* ------------------------------------------------------------------------
Init ==
    /\ IngestInit
    /\ objects = <<>>
    /\ picked = NotPicked
    /\ variant = "app"
    /\ pinecone = {}
    /\ q = QFrame("start")

Next == IngestNext

\* One operator, one session: the runs follow each other.
SeqNext ==
    \/ FetchInventory
    \/ SessionStep("A")

\* The ingestion page: fetches and script runs of the two sessions.
Spec == Init /\ [][Next]_vars

SeqSpec == Init /\ [][SeqNext]_vars

\* The query page, over every ledger ingestion can leave.
QuerySpec == QueryInit /\ [][QueryNext]_vars

\* The choice of the latest snapshot from a listing.
SelectSpec == SelectInit /\ [][SelectNext]_vars

\* ------------------------------------------------------------------------
\* Properties
\* ------------------------------------------------------------------------

\* C1: over any sequence of fetches and ingestion runs, failed and crashed
\* ones included, no snapshot is loaded into a vector index a second time,
\* and a run that ends in success has recorded in the ledger and deleted
\* from the store the snapshot it loaded.
C1_LoadedAtMostOnce ==
    /\ \A f \in SnapshotNames : completed[f] <= 1
    /\ \A s \in Sessions :
          sess[s].outcome.kind = "ingested" =>
             /\ <<basename(sess[s].latest_file_key), sess[s].outcome.reported>>
                   \in indexed
             /\ basename(sess[s].latest_file_key) \in deleted

\* C2: when the file name of the latest snapshot is a key of the ledger the
\* run loaded, the step that finds it so ends the run: no download, load,
\* save or delete call was or is made by the run, the store and the ledger
\* stay as they are, and the index name recorded for the key is what the
\* run reports.
C2_SkipWhenRecorded ==
    [][\A s \in Sessions :
          LET key == sess'[s].latest_file_key
              name == basename(key)
          IN (/\ sess[s].pc = "list"
              /\ sess'[s].pc # "list"
              /\ key # NoFile
              /\ name \in DOMAIN sess[s].ingestion_log)
             => /\ sess'[s].pc = "done"
                /\ sess'[s].outcome =
                      [kind |-> "skipped",
                       reported |-> sess[s].ingestion_log[name]]
                /\ sess'[s].calls = NoCalls
                /\ UNCHANGED <<now, Contents, ledgerBody, completed, indexed,
                               deleted>>]_vars

C2_Skipped ==
    \E s \in Sessions :
       /\ sess[s].outcome.kind = "skipped"
       /\ sess[s].outcome.reported \in IndexNames
       /\ basename(sess[s].latest_file_key) \in DOMAIN ledgerBody
       /\ KeyExists(sess[s].latest_file_key)

\* C3: the step in which the download of the snapshot or the loader fails
\* ends the run; the run has saved no ledger and deleted nothing, and the
\* ledger object and the objects of the store, the snapshot among them,
\* are what they were, so the next run selects as this one did.
C3_FailureKeepsLedgerAndSnapshot ==
    [][\A s \in Sessions :
          (\/ /\ sess[s].calls.download = "none"
              /\ sess'[s].calls.download = "failed"
           \/ /\ sess[s].calls.index = "none"
              /\ sess'[s].calls.index = "failed")
          => /\ sess'[s].pc = "done"
             /\ sess'[s].outcome.kind \in {"download_failed", "index_failed"}
             /\ sess'[s].calls.save = "none"
             /\ sess'[s].calls.delete = "none"
             /\ UNCHANGED <<now, Contents, ledgerBody, deleted>>
             /\ LatestKey(InKeyOrder(Contents')) = LatestKey(InKeyOrder(Contents))]_vars

C3_LoadFailed ==
    \E s \in Sessions :
       /\ sess[s].pc = "done"
       /\ sess[s].calls.download = "ok"
       /\ sess[s].calls.index = "failed"
       /\ KeyExists(sess[s].latest_file_key)
       /\ LatestKey(InKeyOrder(Contents)) = sess[s].latest_file_key
       /\ basename(sess[s].latest_file_key) \notin DOMAIN ledgerBody

\* C4: a load of the ledger that the store answers with "no such key", which
\* it does only when the ledger object does not exist, raises nothing and
\* gives the run the empty mapping.
C4_MissingLedgerLoadsEmpty ==
    [][\A s \in Sessions :
          (sess[s].pc = "load_log" /\ sess'[s].logAnswer = "NoSuchKey")
          => /\ ~LedgerExists
             /\ sess'[s].pc = "list"
             /\ sess'[s].outcome.kind # "raised"
             /\ sess'[s].ingestion_log = EmptyLog]_vars

C4_LoadedFromMissing ==
    \E s \in Sessions :
       /\ sess[s].pc = "list"
       /\ sess[s].logAnswer = "NoSuchKey"
       /\ sess[s].ingestion_log = EmptyLog
       /\ ~LedgerExists

\* C5: a run that has got past the load of the ledger while a ledger with
\* entries exists has loaded it: a fetch that failed for another reason
\* than "no such key" was left to the caller, never turned into the empty
\* mapping.
C5_OtherFailuresSurface ==
    \A s \in Sessions :
       (sess[s].pc = "list" /\ LedgerExists /\ ledgerBody # EmptyLog)
       => /\ sess[s].logAnswer = "ok"
          /\ sess[s].ingestion_log = ledgerBody

\* A pass of the bootstrap: the create calls it issues.
C6_BootstrapPass ==
    (q.pc = "bootstrap" /\ q'.attempt = q.attempt + 1)
    => /\ q.bootstrap = "none"
       /\ ~q.createdNow
       /\ q'.createCalls <= q.createCalls + 1
       /\ (q.index_name \in pinecone => q'.createCalls = q.createCalls)
       /\ (q'.createdNow =>
              /\ q'.createCalls = q.createCalls + 1
              /\ q'.bootstrap = "True"
              /\ q.index_name \in pinecone')

\* While the locals of the bootstrap are there (a pass has been made).
C6_BootstrapState ==
    q.attempt > 0 =>
       /\ q.createCalls <= q.attempt
       /\ q.raisedAttempts <= q.attempt
       /\ ((q.createdNow /\ q.raisedAttempts = 0) => q.createCalls = 1)
       /\ (variant = "assistant" =>
             /\ q.attempt <= q.retries
             /\ q.bootstrap \in {"none", "True", "False"}
             /\ (q.bootstrap = "False" <=>
                   (q.attempt = q.retries /\ q.raisedAttempts = q.retries))
             /\ (q.bootstrap = "True" <=>
                   q.raisedAttempts = q.attempt - 1)
             /\ (q.bootstrap = "none" <=>
                   (q.attempt < q.retries /\ q.raisedAttempts = q.attempt)))
       /\ (variant = "app" =>
             /\ q.attempt = 1
             /\ q.bootstrap \in {"True", "raised"}
             /\ (q.bootstrap = "True" <=> q.raisedAttempts = 0))

\* C6: index bootstrap.  A pass that finds the name in the listing issues
\* no create call; a create call that succeeds is the last one, so that a
\* first call that succeeds is the only one; create_index_with_retry makes
\* at most `retries` passes, returns False exactly when all of them raised,
\* and True exactly when its last pass did not raise.
C6_IndexBootstrap == []C6_BootstrapState /\ [][C6_BootstrapPass]_vars

C6_RetriesExhausted ==
    /\ variant = "assistant"
    /\ q.bootstrap = "False"
    /\ q.retries = retries_default
    /\ q.attempt = retries_default
    /\ q.createCalls = retries_default
    /\ q.index_name \notin pinecone

\* C7: when retrieve_documents has returned the empty list, query() has
\* returned its "no relevant documents" outcome and the run of the question
\* has made no call to the completion service.
C7_NoDocumentsNoCompletion ==
    (q.extracted /\ q.documents = <<>>)
    => /\ q.pc = "ended"
       /\ q.completionCalls = 0
       /\ IF variant = "assistant"
          THEN q.returned = "None" /\ "no_documents_warning" \in q.shown
          ELSE q.returned = "No relevant data found."

C7_NothingExtracted ==
    /\ q.extracted
    /\ q.documents = <<>>
    /\ q.query_result.matches # <<>>
    /\ q.searchCalls = 1

\* C8: once retrieve_documents has been applied to the result of a search,
\* it has returned, in their order, the `content` of those of the first
\* max_docs matches that have one, has reported each of the others, and
\* has returned at most max_docs documents.
WithContent(match) == "content" \in DOMAIN match.metadata

C8_ExtractionSkipsAndCaps ==
    (q.query_result.kind = "result" /\ q.pc # "extract")
    => LET head == Slice(q.query_result.matches, max_docs_default)
           kept == SelectSeq(head, WithContent)
           skipped == SelectSeq(head, LAMBDA m : ~WithContent(m))
       IN /\ q.extracted
          /\ q.documents = [i \in 1..Len(kept) |-> kept[i].metadata.content]
          /\ q.errors = [i \in 1..Len(skipped) |-> skipped[i].id]
          /\ Len(q.documents) <= max_docs_default

\* C9: from a listing whose objects have distinct LastModified, the key
\* chosen as latest is the one of the snapshot object (a key that ends in
\* .json and is not the ledger's) of greatest LastModified, no key when the
\* listing holds no snapshot, and every order of the listing gives it.
SnapshotsOf(listing) ==
    {listing[i] : i \in {j \in 1..Len(listing) :
                            /\ listing[j].Key.name.ext = ".json"
                            /\ listing[j].Key # log_key}}

DistinctTimes(listing) ==
    \A i, j \in 1..Len(listing) :
       i # j => listing[i].LastModified # listing[j].LastModified

C9_LatestIsNewest ==
    (picked.done /\ DistinctTimes(objects))
    => LET snaps == SnapshotsOf(objects)
       IN /\ snaps = {} => picked.key = NoFile
          /\ snaps # {} =>
                \E o \in snaps :
                   /\ o.Key = picked.key
                   /\ \A p \in snaps : p.LastModified <= o.LastModified
          /\ \A l \in Orderings(objects) : LatestKey(l) = picked.key

C9_NewestNotFirst ==
    /\ picked.done
    /\ DistinctTimes(objects)
    /\ Len(objects) = MaxListing
    /\ Cardinality(SnapshotsOf(objects)) >= 2
    /\ picked.key # objects[1].Key
    /\ \E i \in 1..Len(objects) :
          /\ objects[i].Key = log_key
          /\ \A j \in 1..Len(objects) :
                objects[j].LastModified <= objects[i].LastModified

\* C10: every key of the ledger object names a snapshot whose load into the
\* index recorded for it has succeeded, and every snapshot that ingestion
\* has deleted from the store is a key of the ledger object.
C10_LedgerRecordsIngested ==
    /\ \A f \in DOMAIN ledgerBody : <<f, ledgerBody[f]>> \in indexed
    /\ \A f \in deleted : f \in DOMAIN ledgerBody

\* C11: once the index bootstrap has ended in failure (create_index_with_retry
\* has used up its retries and returned False, or the inline bootstrap of
\* app.py has raised), the run obtains no handle on the index and issues no
\* vector query.
C11_NoQueryAfterFailedBootstrap ==
    q.bootstrap \in {"False", "raised"}
    => /\ ~q.handle
       /\ q.searchCalls = 0

\* The stages of query() in their order; a run that has ended comes last.
Stage(pcv) ==
    CASE pcv = "embed" -> 1
      [] pcv = "search" -> 2
      [] pcv = "extract" -> 3
      [] pcv = "summarize" -> 4
      [] pcv = "ended" -> 5
      [] OTHER -> 0

\* One step of a run that is in query(), or that has left it.
C12_Step ==
    /\ Stage(q.pc) \in 1..4 => Stage(q'.pc) > Stage(q.pc)
    /\ q.pc = "ended" => q'.pc = "start"
    /\ q'.embedCalls > q.embedCalls =>
          q.pc = "embed" /\ q.searchCalls = 0 /\ q.completionCalls = 0
    /\ q'.searchCalls > q.searchCalls =>
          q.pc = "search" /\ q.embedCalls = 1 /\ q.completionCalls = 0
    /\ q'.completionCalls > q.completionCalls =>
          q.pc = "summarize" /\ q.searchCalls = 1 /\ q.extracted
    /\ (q.pc = "embed" /\ q'.pc # "search") =>
          /\ q'.pc = "ended"
          /\ q'.returned = "None"
          /\ q'.searchCalls = 0
          /\ q'.completionCalls = 0
    /\ (q.pc = "search" /\ q'.pc # "extract") =>
          /\ q'.pc = "ended"
          /\ q'.returned = "None"
          /\ q'.completionCalls = 0

\* C12: query() goes through embed, search, extract, summarize in that
\* order and never back; each remote call is made in its own stage only; an
\* embedding call or a vector search that fails ends query() with the
\* (None, []) result, nothing raised, and no later stage is called.
C12_PipelineOrderAndFailures == [][C12_Step]_vars

\* C13: a save that succeeds puts in the ledger object exactly the mapping
\* of the run that saves (the one it loaded, with its own entry), whatever
\* the object held, and nothing else changes the ledger object: after
\* interleaved runs the ledger is the mapping of the run that saved last,
\* and an entry saved by the other run may be missing or overwritten.
C13_LastSaveWins ==
    [][/\ \A s \in Sessions :
             (sess[s].pc = "save" /\ sess'[s].calls.save = "ok")
             => /\ ledgerBody' = Record(sess[s].ingestion_log,
                                        basename(sess[s].latest_file_key),
                                        sess[s].index_name)
                /\ LedgerExists'
       /\ ledgerBody' # ledgerBody
             => \E s \in Sessions :
                   sess[s].pc = "save" /\ sess'[s].calls.save = "ok"]_vars

\* Session `first` has ingested and saved its entry; session `last` loaded
\* the ledger as it was before that save, and has now saved.
SavedOver(first, last) ==
    /\ first # last
    /\ sess[first].outcome.kind = "ingested"
    /\ sess[last].pc = "delete"
    /\ sess[last].logAnswer \in {"ok", "NoSuchKey"}
    /\ ledgerBody = sess[last].ingestion_log

C13_EntryMissing ==
    \E first, last \in Sessions :
       /\ SavedOver(first, last)
       /\ basename(sess[first].latest_file_key) \notin DOMAIN ledgerBody

C13_EntryOverwritten ==
    \E first, last \in Sessions :
       /\ SavedOver(first, last)
       /\ sess[first].latest_file_key = sess[last].latest_file_key
       /\ ledgerBody[basename(sess[first].latest_file_key)]
             # sess[first].outcome.reported

C13_EarlierEntryLost == C13_EntryMissing \/ C13_EntryOverwritten

\* The remote calls of the query page made by the run so far.
NoQueryCalls ==
    /\ q.attempt = 0
    /\ q.createCalls = 0
    /\ q.bootstrap = "none"
    /\ ~q.handle
    /\ q.embedCalls = 0
    /\ q.searchCalls = 0
    /\ q.completionCalls = 0

\* The query page on the ledgers that runs which loaded the ledger and
\* ended in success leave: a run that has got past its first step works on
\* the index the ledger object records for the snapshot fetched last among
\* its keys, the newest ingested one; a ledger that is missing, unreadable
\* or empty gives no index name, and a run without index name has stopped
\* with no bootstrap, embedding, search or completion call made.
QueryUsesLedgerLatest ==
    /\ q.pc \notin {"start", "stopped"} =>
          /\ LedgerExists
          /\ \E f \in DOMAIN ledgerBody :
                /\ \A g \in DOMAIN ledgerBody : g.ts <= f.ts
                /\ \A e \in indexed : e[1].ts <= f.ts
                /\ <<f, q.index_name>> \in indexed
                /\ q.index_name = ledgerBody[f]
    /\ \A answer \in FetchAnswers(LedgerExists) :
          (answer # "ok" \/ ledgerBody = EmptyLog)
          => get_latest_index_from_s3_log(answer, ledgerBody) = NoInput
    /\ get_latest_index_from_s3_log("ok", EmptyLog) = NoInput
    /\ (~LedgerExists \/ ledgerBody = EmptyLog) => q.pc \in {"start", "stopped"}
    /\ q.pc \in {"start", "stopped"} => q.index_name = NoInput /\ NoQueryCalls

\* C14: whenever no ingestion run is under way, the index name the query
\* page gets from the ledger object is the one recorded for the key that is
\* greatest as a string, that key is the snapshot fetched last among those
\* ingestion has loaded, recorded and deleted, and the snapshot was loaded
\* into that index; without ledger object, or when it cannot be read, the
\* page gets no index name.
C14_LatestIndexIsNewestIngested ==
    (\A s \in Sessions : sess[s].pc \in {"idle", "done"})
    => /\ \A answer \in FetchAnswers(LedgerExists) :
             answer # "ok"
             => get_latest_index_from_s3_log(answer, ledgerBody) = NoInput
       /\ LedgerExists =>
             LET name == get_latest_index_from_s3_log("ok", ledgerBody)
             IN \E f \in DOMAIN ledgerBody :
                   /\ \A g \in DOMAIN ledgerBody :
                         g = f \/ StrBefore(timestamp(g.ts), timestamp(f.ts))
                   /\ name = ledgerBody[f]
                   /\ <<f, name>> \in indexed
                   /\ \A g \in deleted : g.ts <= f.ts
====
